---- MODULE Spec2Model ----
(***************************************************************************)
(* A model of on_shell_call (the before / process / after lifecycle        *)
(* coordinator) together with the helpers of base.ts it relies on:         *)
(* ensure_error, deep_clone_and_sort, stable_json_stringify, assert; and   *)
(* of execute_async, the worker pool of base.ts.  Each function has its    *)
(* own variables and specification (Spec, PoolSpec, EncSpec, ErrorSpec);   *)
(* the variables of the functions that are not running stay idle.          *)
(*                                                                         *)
(* JavaScript values are records tagged by their type in field t.  An      *)
(* object keeps its properties as a sequence of <<key, value>> pairs in    *)
(* insertion order, so that key sorting is something the model computes.   *)
(* JSON text is represented by its parse tree.                             *)
(***************************************************************************)
EXTENDS Integers, Sequences, FiniteSets, TLC

\* Bounds of the model.
MaxInputs == 2      \* longest `inputs` array of an invocation
MaxArgs == 2        \* largest number of command line arguments

(***************************************************************************)
(* JavaScript values                                                       *)
(***************************************************************************)
Undefined == [t |-> "undefined"]
Null == [t |-> "null"]
Num(n) == [t |-> "number", n |-> n]
Str(s) == [t |-> "string", s |-> s]
Bool(b) == [t |-> "boolean", b |-> b]
Arr(items) == [t |-> "array", items |-> items]
Obj(props) == [t |-> "object", props |-> props]
NewError(message) == [t |-> "Error", message |-> message, stack |-> "stack"]

\* obj[key]: the value of a property, undefined when the object has none.
Get(obj, key) ==
  IF obj.t = "object" /\ \E j \in 1..Len(obj.props) : obj.props[j][1] = key
  THEN LET j == CHOOSE j \in 1..Len(obj.props) : obj.props[j][1] = key
       IN  obj.props[j][2]
  ELSE Undefined

Array_isArray(v) == v.t = "array"

\* JavaScript truthiness, as `error || default_message` and `!error.message` use it.
Truthy(v) ==
  CASE v.t = "undefined" -> FALSE
    [] v.t = "null"      -> FALSE
    [] v.t = "number"    -> v.n # 0
    [] v.t = "string"    -> v.s # ""
    [] v.t = "boolean"   -> v.b
    [] OTHER             -> TRUE

\* '' + v for the primitive values.
ToStr(v) ==
  CASE v.t = "undefined" -> "undefined"
    [] v.t = "null"      -> "null"
    [] v.t = "number"    -> ToString(v.n)
    [] v.t = "string"    -> v.s
    [] v.t = "boolean"   -> IF v.b THEN "true" ELSE "false"
    [] OTHER             -> "[object Object]"

default_message == "Unknown error"

\* ensure_error(error): the Error it returns.
ensure_error(error) ==
  IF error.t = "Error"
  THEN IF error.message = "" THEN [error EXCEPT !.message = default_message] ELSE error
  ELSE NewError(IF Truthy(error) THEN ToStr(error) ELSE default_message)

(***************************************************************************)
(* Errorneous<R>, in the property order the code writes it                 *)
(***************************************************************************)
Success(value) == Obj(<< <<"is_error", Bool(FALSE)>>, <<"value", value>> >>)
Failure(error) == Obj(<< <<"is_error", Bool(TRUE)>>, <<"error", Str(error)>> >>)
IsError(e) == Get(e, "is_error").b

(***************************************************************************)
(* deep_clone_and_sort, stable_json_stringify                              *)
(***************************************************************************)
\* The property names of the model, in localeCompare order.  Names that
\* localeCompare finds equal share a position: "caf(U+00E9)" is the name
\* written with the precomposed letter and "cafe(U+0301)" the same word with
\* e followed by the combining accent, two different property names that are
\* canonically equivalent, for which localeCompare gives 0.
KeyOrder ==
  <<{"after"}, {"before"}, {"caf(U+00E9)", "cafe(U+0301)"}, {"error"}, {"inputs"},
    {"is_error"}, {"message"}, {"stack"}, {"value"}>>
KeyRank(k) == CHOOSE r \in 1..Len(KeyOrder) : k \in KeyOrder[r]
localeCompare(a, b) == KeyRank(a) - KeyRank(b)

\* entries.sort((a, b) => a[0].localeCompare(b[0])): the sort is stable, so the
\* entry at position j is the one that has j - 1 entries before it in the order.
SortEntries(entries) ==
  [j \in 1..Len(entries) |->
     entries[CHOOSE k \in 1..Len(entries) :
               Cardinality({m \in 1..Len(entries) :
                              \/ localeCompare(entries[m][1], entries[k][1]) < 0
                              \/ (localeCompare(entries[m][1], entries[k][1]) = 0 /\ m < k)})
                 = j - 1]]

\* Error.prototype.toJSON
Error_toJSON(e) == Obj(<< <<"message", Str(e.message)>>, <<"stack", Str(e.stack)>> >>)

\* The one element of a singleton set.  Binding a value as the element of a
\* singleton evaluates it once, before it is used.
Only(S) == CHOOSE r \in S : TRUE

RECURSIVE deep_clone_and_sort(_)
deep_clone_and_sort(obj) ==
  CASE obj.t = "array"  -> Arr([j \in 1..Len(obj.items) |-> deep_clone_and_sort(obj.items[j])])
    [] obj.t = "Error"  -> Only({deep_clone_and_sort(json) : json \in {Error_toJSON(obj)}})
    [] obj.t = "object" ->
         Only({Obj([j \in 1..Len(sorted) |-> <<sorted[j][1], deep_clone_and_sort(sorted[j][2])>>]) :
                 sorted \in {SortEntries(obj.props)}})
    [] OTHER -> obj

\* JSON.stringify, the text given by its parse tree: a property whose value is
\* undefined is left out, an undefined array element is written null.
RECURSIVE JSON_stringify(_)
JSON_stringify(v) ==
  CASE v.t = "array" ->
         Arr([j \in 1..Len(v.items) |->
                IF v.items[j].t = "undefined" THEN Null ELSE JSON_stringify(v.items[j])])
    [] v.t = "object" ->
         Only({Obj([j \in 1..Len(kept) |-> <<kept[j][1], JSON_stringify(kept[j][2])>>]) :
                 kept \in {SelectSeq(v.props, LAMBDA p : p[2].t # "undefined")}})
    [] OTHER -> v

stable_json_stringify(obj) ==
  Only({JSON_stringify(sorted) : sorted \in {deep_clone_and_sort(o) : o \in {obj}}})

is_equal(a, b) == stable_json_stringify(a) = stable_json_stringify(b)

json_output_token == "shell_call_json_output:"

(***************************************************************************)
(* The invocation: Deno.args                                               *)
(***************************************************************************)
\* A command line argument: whether its text is JSON and, if so, the value
\* JSON.parse gives for it.
before_input == Str("before input")
after_input == Str("after input")
InputItems == {Num(1), Num(2)}
InputArrays == UNION {[1..n -> InputItems] : n \in 0..MaxInputs}
NotArrays == {Num(5), Str("12"), Null}
Payloads ==
  {Obj(<< <<"before", before_input>>, <<"inputs", Arr(s)>>, <<"after", after_input>> >>) :
     s \in InputArrays}
  \cup {Obj(<< <<"before", before_input>>, <<"inputs", v>>, <<"after", after_input>> >>) :
          v \in NotArrays}
  \cup {Obj(<< <<"before", before_input>>, <<"after", after_input>> >>), Null, Num(5)}
ArgTexts ==
  {[json |-> TRUE, value |-> p] : p \in Payloads} \cup {[json |-> FALSE, value |-> Undefined]}
ExtraArg == [json |-> FALSE, value |-> Undefined]
ArgLists ==
  {<<>>} \cup {<<a>> \o [k \in 1..n |-> ExtraArg] : a \in ArgTexts, n \in 0..(MaxArgs - 1)}

JSON_parse(arg) == arg.value

\* What the phase functions, supplied by the caller, may return or throw.
BeforeValues == {Str("before output"), Undefined}
ProcessValues(input) == {Num(input.n * 2), Undefined}
Thrown == {NewError("boom"), NewError(""), Str("bad item"), Undefined, Num(0)}

VARIABLES
  args,           \* Deno.args
  pc,             \* where on_shell_call is: "start", "await_before", "await_process",
                  \* "await_after", "await_write", "exited" or "rejected"
  data,           \* JSON.parse(Deno.args[0])
  before_output,  \* Errorneous<BeforeOutput>, undefined until assigned
  results,        \* Errorneous<something>[]
  next_input,     \* position of the for-of loop in data.inputs
  calls,          \* the calls of before / process / after made so far, oldest first
  stdout,         \* the writes made to Deno.stdout
  rejection       \* the error on_shell_call's promise was rejected with, if any

vars == <<args, pc, data, before_output, results, next_input, calls, stdout, rejection>>

\* on_shell_call is not running.
ShellIdle ==
  /\ args = <<>>
  /\ pc = "idle"
  /\ data = Undefined
  /\ before_output = Undefined
  /\ results = <<>>
  /\ next_input = 0
  /\ calls = <<>>
  /\ stdout = <<>>
  /\ rejection = <<>>

(***************************************************************************)
(* The state of a call of execute_async(tasks, process, workers_count)     *)
(***************************************************************************)
VARIABLES
  tasks,          \* the task list
  workers_count,  \* the number of workers asked for
  i,              \* the cursor shared by the workers
  pool_results,   \* execute_async's `results`: task index -> value
  promises,       \* the promise of each worker() call, in spawn order
  process_calls,  \* the process calls started so far, oldest first
  completions,    \* the task indices of the settled process calls, in settling order
  pool_pc,        \* where execute_async is: "call", "await", "resolved" or "rejected"
  awaited,        \* position of the `for (const promise of promises)` loop
  returned        \* what execute_async's promise settled with, if it has

pool_vars ==
  <<tasks, workers_count, i, pool_results, promises, process_calls, completions, pool_pc,
    awaited, returned>>

\* execute_async is not running.
PoolIdle ==
  /\ tasks = <<>>
  /\ workers_count = 0
  /\ i = 0
  /\ pool_results = <<>>
  /\ promises = <<>>
  /\ process_calls = <<>>
  /\ completions = <<>>
  /\ pool_pc = "idle"
  /\ awaited = 0
  /\ returned = <<>>

(***************************************************************************)
(* The state of a comparison of two encodings by stable_json_stringify     *)
(***************************************************************************)
VARIABLES
  enc_a,          \* the first value
  enc_b,          \* the second value
  enc_texts,      \* <<text of enc_a, text of enc_b>> once both are encoded
  enc_pc          \* "call" or "done"

enc_vars == <<enc_a, enc_b, enc_texts, enc_pc>>

EncIdle ==
  /\ enc_a = Undefined
  /\ enc_b = Undefined
  /\ enc_texts = <<>>
  /\ enc_pc = "idle"

(***************************************************************************)
(* The state of a call of ensure_error(error)                              *)
(***************************************************************************)
VARIABLES
  error,          \* the argument: the thrown value, an object the call may write to
  error_before,   \* the argument as it was when the call was made
  error_result,   \* <<the Error returned>> once the call is over
  error_pc        \* "call" or "done"

error_vars == <<error, error_before, error_result, error_pc>>

ErrorIdle ==
  /\ error = Undefined
  /\ error_before = Undefined
  /\ error_result = <<>>
  /\ error_pc = "idle"

\* The variables on_shell_call leaves alone.
other_vars == <<pool_vars, enc_vars, error_vars>>
all_vars == <<vars, pool_vars, enc_vars, error_vars>>

Call(fn, a) == [fn |-> fn, args |-> a, outcome |-> [kind |-> "pending"]]
Settled(log, kind, value) ==
  [log EXCEPT ![Len(log)].outcome = [kind |-> kind, value |-> value]]

Inputs == Get(data, "inputs").items

Init ==
  /\ args \in ArgLists
  /\ pc = "start"
  /\ data = Undefined
  /\ before_output = Undefined
  /\ results = <<>>
  /\ next_input = 0
  /\ calls = <<>>
  /\ stdout = <<>>
  /\ rejection = <<>>
  /\ PoolIdle /\ EncIdle /\ ErrorIdle

(***************************************************************************)
(* The lines of on_shell_call                                              *)
(***************************************************************************)
\* assert.equal(Deno.args.length, 1, ...)
args_ok_any_first(a) == Len(a) >= 1
args_ok(a) == is_equal(Num(Len(a)), Num(1))

\* data.inputs.map(() => before_output)
before_error_results_default(inputs, bo) == [j \in 1..Len(inputs) |-> Failure(default_message)]
before_error_results(inputs, bo) == [j \in 1..Len(inputs) |-> bo]

\* results.push({ is_error: false, value })
process_ok(res, value) == Append(res, Success(value))

\* results.push({ is_error: true, error: ensure_error(e).message })
process_catch_first(res, e) == <<Failure(ensure_error(e).message)>> \o res
process_catch(res, e) == Append(res, Failure(ensure_error(e).message))

\* before_output.is_error ? undefined : before_output.value
after_first_arg_raw(bo) == bo
after_first_arg(bo) == IF IsError(bo) THEN Undefined ELSE Get(bo, "value")

\* data.inputs.map(() => ({ is_error: true, error: ensure_error(e).message }))
after_error_results_single(inputs, e) == <<Failure(ensure_error(e).message)>>
after_error_results(inputs, e) == [j \in 1..Len(inputs) |-> Failure(ensure_error(e).message)]

\* An error leaves on_shell_call: its promise is rejected.
Reject(e) ==
  /\ pc' = "rejected"
  /\ rejection' = <<e>>

\* json_output_token + stable_json_stringify(results), handed to Deno.stdout.write
Emit_twice(res) ==
  /\ stdout' = stdout \o << [token |-> json_output_token, json |-> stable_json_stringify(Arr(res))],
                            [token |-> json_output_token, json |-> stable_json_stringify(Arr(res))] >>
  /\ pc' = "await_write"
  /\ UNCHANGED rejection
Emit(res) ==
  /\ stdout' = Append(stdout, [token |-> json_output_token, json |-> stable_json_stringify(Arr(res))])
  /\ pc' = "await_write"
  /\ UNCHANGED rejection

\* The after phase is entered: after(...) is called and awaited.
RunAfter_unless_before_failed(bo, res, log) ==
  IF IsError(bo)
  THEN /\ calls' = log
       /\ results' = res
       /\ Emit(res)
  ELSE /\ calls' = Append(log, Call("after", <<after_first_arg(bo), Get(data, "after")>>))
       /\ results' = res
       /\ pc' = "await_after"
       /\ UNCHANGED <<stdout, rejection>>
RunAfter(bo, res, log) ==
  /\ calls' = Append(log, Call("after", <<after_first_arg(bo), Get(data, "after")>>))
  /\ results' = res
  /\ pc' = "await_after"
  /\ UNCHANGED <<stdout, rejection>>

\* for (let input of data.inputs): the iteration at position k, or the end of the loop.
Loop_all_at_once(bo, res, k, log) ==
  /\ next_input' = k
  /\ IF k <= Len(Inputs)
     THEN /\ calls' = log \o [j \in 1..(Len(Inputs) - k + 1) |->
                                Call("process", <<Get(bo, "value"), Inputs[k + j - 1]>>)]
          /\ results' = res
          /\ pc' = "await_process"
          /\ UNCHANGED <<stdout, rejection>>
     ELSE RunAfter(bo, res, log)
Loop(bo, res, k, log) ==
  /\ next_input' = k
  /\ IF k <= Len(Inputs)
     THEN /\ calls' = Append(log, Call("process", <<Get(bo, "value"), Inputs[k]>>))
          /\ results' = res
          /\ pc' = "await_process"
          /\ UNCHANGED <<stdout, rejection>>
     ELSE RunAfter(bo, res, log)

\* From the assignment of before_output to the next await.
AfterBefore(bo, log) ==
  /\ before_output' = bo
  /\ IF ~Array_isArray(Get(data, "inputs"))
     THEN /\ calls' = log
          /\ Reject(NewError("inputs should be an array"))
          /\ UNCHANGED <<results, next_input, stdout>>
     ELSE IF IsError(bo)
     THEN /\ RunAfter(bo, before_error_results(Inputs, bo), log)
          /\ UNCHANGED next_input
     ELSE Loop(bo, <<>>, 1, log)

(***************************************************************************)
(* The steps of on_shell_call, one per stretch of code between two awaits  *)
(***************************************************************************)
\* Entry: the argument count, JSON.parse, and the call of before.  Reading
\* data.before of a null data throws inside the try block and is caught; reading
\* data.inputs of it then throws outside of any try block.
Start ==
  /\ pc = "start"
  /\ UNCHANGED <<other_vars, args, results, next_input, stdout>>
  /\ IF ~args_ok(args)
     THEN /\ Reject(NewError("only one argument expected"))
          /\ UNCHANGED <<data, before_output, calls>>
     ELSE IF ~args[1].json
     THEN /\ Reject(NewError("Unexpected token"))
          /\ UNCHANGED <<data, before_output, calls>>
     ELSE LET d == JSON_parse(args[1]) IN
          /\ data' = d
          /\ IF d.t = "null"
             THEN /\ before_output' = Failure(ensure_error(NewError("Cannot read properties of null")).message)
                  /\ Reject(NewError("Cannot read properties of null"))
                  /\ UNCHANGED calls
             ELSE /\ calls' = <<Call("before", <<Get(d, "before")>>)>>
                  /\ pc' = "await_before"
                  /\ UNCHANGED <<before_output, rejection>>

BeforeReturns(v) ==
  /\ pc = "await_before"
  /\ AfterBefore(Success(v), Settled(calls, "return", v))
  /\ UNCHANGED <<other_vars, args, data>>

BeforeThrows(e) ==
  /\ pc = "await_before"
  /\ AfterBefore(Failure(ensure_error(e).message), Settled(calls, "throw", e))
  /\ UNCHANGED <<other_vars, args, data>>

ProcessReturns(v) ==
  /\ pc = "await_process"
  /\ Loop(before_output, process_ok(results, v), next_input + 1, Settled(calls, "return", v))
  /\ UNCHANGED <<other_vars, args, data, before_output>>

ProcessThrows_uncaught(e) ==
  /\ pc = "await_process"
  /\ calls' = Settled(calls, "throw", e)
  /\ Reject(e)
  /\ UNCHANGED <<other_vars, args, data, before_output, results, next_input, stdout>>
ProcessThrows(e) ==
  /\ pc = "await_process"
  /\ Loop(before_output, process_catch(results, e), next_input + 1, Settled(calls, "throw", e))
  /\ UNCHANGED <<other_vars, args, data, before_output>>

AfterReturns ==
  /\ pc = "await_after"
  /\ calls' = Settled(calls, "return", Undefined)
  /\ Emit(results)
  /\ UNCHANGED <<other_vars, args, data, before_output, results, next_input>>

AfterThrows_no_override(e) ==
  /\ pc = "await_after"
  /\ calls' = Settled(calls, "throw", e)
  /\ Emit(results)
  /\ UNCHANGED <<other_vars, args, data, before_output, results, next_input>>
AfterThrows(e) ==
  /\ pc = "await_after"
  /\ calls' = Settled(calls, "throw", e)
  /\ results' = after_error_results(Inputs, e)
  /\ Emit(after_error_results(Inputs, e))
  /\ UNCHANGED <<other_vars, args, data, before_output, next_input>>

\* await Deno.stdout.write(...) is over: Deno.exit()
WriteSettles ==
  /\ pc = "await_write"
  /\ pc' = "exited"
  /\ UNCHANGED <<other_vars, args, data, before_output, results, next_input, calls, stdout, rejection>>

\* What the process call in flight may return.
PendingProcessValues ==
  IF pc = "await_process" THEN ProcessValues(calls[Len(calls)].args[2]) ELSE {}

Next ==
  \/ Start
  \/ \E v \in BeforeValues : BeforeReturns(v)
  \/ \E e \in Thrown : BeforeThrows(e)
  \/ \E v \in PendingProcessValues : ProcessReturns(v)
  \/ \E e \in Thrown : ProcessThrows(e)
  \/ AfterReturns
  \/ \E e \in Thrown : AfterThrows(e)
  \/ WriteSettles

Spec == Init /\ [][Next]_all_vars

\* Every call of a phase function returns or throws, and the code between two
\* awaits runs to the next await.
FairSpec == Spec /\ WF_vars(Next)

(***************************************************************************)
(* execute_async                                                           *)
(***************************************************************************)
MaxTasks == 3       \* longest task list
MaxWorkers == 3     \* largest workers_count

TaskItems == {Num(1), Num(2)}
TaskLists == UNION {[1..n -> TaskItems] : n \in 0..MaxTasks}

\* What a process call resolves with, and what it may be rejected with.
TaskValue(task) == IF task.t = "number" THEN Num(task.n * task.n) ELSE Undefined
TaskErrors == {NewError("task failed")}

\* tasks[task_i], undefined outside of the list
TaskAt(task_i) == IF task_i >= 0 /\ task_i < Len(tasks) THEN tasks[task_i + 1] ELSE Undefined

\* const task_i = i++ : the index claimed, and the cursor after the claim
claimed_index_preincrement(cursor) == cursor + 1
claimed_index(cursor) == cursor
cursor_after_claim_stale(cursor) == cursor
cursor_after_claim(cursor) == cursor + 1

\* for (let i = 0; i < workers_count; i++) : the number of worker() calls
spawn_count_inclusive(count) == count + 1
spawn_count(count) == count

\* results[task_i] = value
store_in_completion_order(res, task_i, value) == (Cardinality(DOMAIN res) :> value) @@ res
store(res, task_i, value) == (task_i :> value) @@ res

\* map(tasks, (_v, i) => results[i])
map_results(list, res) ==
  [k \in 1..Len(list) |-> IF (k - 1) \in DOMAIN res THEN res[k - 1] ELSE Undefined]

ProcessCall(worker, task_i) ==
  [worker |-> worker, task_i |-> task_i, task |-> TaskAt(task_i), outcome |-> [kind |-> "pending"]]
PendingPromise == [state |-> "pending"]
ResolvedPromise == [state |-> "resolved"]
RejectedPromise(reason) == [state |-> "rejected", reason |-> reason]

\* worker(), from the head of its while loop to its next await or its return:
\* <<the cursor, the worker's promise, the process calls started>> afterwards.
worker_run(worker, cursor, log) ==
  IF cursor < Len(tasks)
  THEN <<cursor_after_claim(cursor), PendingPromise,
         Append(log, ProcessCall(worker, claimed_index(cursor)))>>
  ELSE <<cursor, ResolvedPromise, log>>

\* The worker() calls of the spawn loop, the first `count` of them made:
\* <<the cursor, the promises, the process calls started>>.
RECURSIVE spawn(_)
spawn(count) ==
  IF count = 0 THEN <<0, <<>>, <<>>>>
  ELSE Only({Only({<<run[1], Append(sofar[2], run[2]), run[3]>> :
                     run \in {worker_run(count, sofar[1], sofar[3])}}) :
               sofar \in {spawn(count - 1)}})

PoolInit ==
  /\ tasks \in TaskLists
  /\ workers_count \in 1..MaxWorkers
  /\ i = 0
  /\ pool_results = <<>>
  /\ promises = <<>>
  /\ process_calls = <<>>
  /\ completions = <<>>
  /\ pool_pc = "call"
  /\ awaited = 0
  /\ returned = <<>>
  /\ ShellIdle /\ EncIdle /\ ErrorIdle

\* The call of execute_async up to its first await: every worker is spawned and
\* runs to its first await.
Spawn ==
  /\ pool_pc = "call"
  /\ LET spawned == spawn(spawn_count(workers_count)) IN
     /\ i' = spawned[1]
     /\ promises' = spawned[2]
     /\ process_calls' = spawned[3]
  /\ awaited' = 1
  /\ pool_pc' = "await"
  /\ UNCHANGED <<tasks, workers_count, pool_results, completions, returned>>
  /\ UNCHANGED <<vars, enc_vars, error_vars>>

\* Process call c resolves and its worker goes on: it stores the value and
\* returns to the head of its loop.
ProcessResolves(c) ==
  /\ process_calls[c].outcome.kind = "pending"
  /\ LET call == process_calls[c]
         value == TaskValue(call.task)
         log == [process_calls EXCEPT ![c].outcome = [kind |-> "resolved", value |-> value]]
         run == worker_run(call.worker, i, log)
     IN  /\ pool_results' = store(pool_results, call.task_i, value)
         /\ completions' = Append(completions, call.task_i)
         /\ i' = run[1]
         /\ promises' = [promises EXCEPT ![call.worker] = run[2]]
         /\ process_calls' = run[3]
  /\ UNCHANGED <<tasks, workers_count, pool_pc, awaited, returned>>
  /\ UNCHANGED <<vars, enc_vars, error_vars>>

\* Process call c is rejected: the await in its worker throws, the worker's
\* promise is rejected.
ProcessRejects_isolated(c, reason) ==
  /\ process_calls[c].outcome.kind = "pending"
  /\ LET call == process_calls[c]
         log == [process_calls EXCEPT ![c].outcome = [kind |-> "rejected", value |-> reason]]
         run == worker_run(call.worker, i, log)
     IN  /\ completions' = Append(completions, call.task_i)
         /\ i' = run[1]
         /\ promises' = [promises EXCEPT ![call.worker] = run[2]]
         /\ process_calls' = run[3]
  /\ UNCHANGED <<tasks, workers_count, pool_results, pool_pc, awaited, returned>>
  /\ UNCHANGED <<vars, enc_vars, error_vars>>
ProcessRejects(c, reason) ==
  /\ process_calls[c].outcome.kind = "pending"
  /\ process_calls' = [process_calls EXCEPT ![c].outcome = [kind |-> "rejected", value |-> reason]]
  /\ completions' = Append(completions, process_calls[c].task_i)
  /\ promises' = [promises EXCEPT ![process_calls[c].worker] = RejectedPromise(reason)]
  /\ UNCHANGED <<tasks, workers_count, i, pool_results, pool_pc, awaited, returned>>
  /\ UNCHANGED <<vars, enc_vars, error_vars>>

\* await promise: the awaited worker has finished, the loop goes to the next one.
AwaitNext ==
  /\ pool_pc = "await"
  /\ awaited < Len(promises)
  /\ promises[awaited].state = "resolved"
  /\ awaited' = awaited + 1
  /\ UNCHANGED <<tasks, workers_count, i, pool_results, promises, process_calls, completions,
                 pool_pc, returned>>
  /\ UNCHANGED <<vars, enc_vars, error_vars>>

\* await promise throws: the awaited worker was rejected, and so is execute_async.
AwaitThrows_ignored ==
  /\ pool_pc = "await"
  /\ promises[awaited].state = "rejected"
  /\ IF awaited < Len(promises)
     THEN awaited' = awaited + 1 /\ UNCHANGED <<pool_pc, returned>>
     ELSE /\ pool_pc' = "resolved"
          /\ returned' = <<Arr(map_results(tasks, pool_results))>>
          /\ UNCHANGED awaited
  /\ UNCHANGED <<tasks, workers_count, i, pool_results, promises, process_calls, completions>>
  /\ UNCHANGED <<vars, enc_vars, error_vars>>
AwaitThrows ==
  /\ pool_pc = "await"
  /\ promises[awaited].state = "rejected"
  /\ pool_pc' = "rejected"
  /\ returned' = <<promises[awaited].reason>>
  /\ UNCHANGED <<tasks, workers_count, i, pool_results, promises, process_calls, completions,
                 awaited>>
  /\ UNCHANGED <<vars, enc_vars, error_vars>>

\* The last worker awaited has finished: return map(tasks, ...).
Return_without_await ==
  /\ pool_pc = "await"
  /\ awaited = Len(promises)
  /\ pool_pc' = "resolved"
  /\ returned' = <<Arr(map_results(tasks, pool_results))>>
  /\ UNCHANGED <<tasks, workers_count, i, pool_results, promises, process_calls, completions,
                 awaited>>
  /\ UNCHANGED <<vars, enc_vars, error_vars>>
Return ==
  /\ pool_pc = "await"
  /\ awaited = Len(promises)
  /\ promises[awaited].state = "resolved"
  /\ pool_pc' = "resolved"
  /\ returned' = <<Arr(map_results(tasks, pool_results))>>
  /\ UNCHANGED <<tasks, workers_count, i, pool_results, promises, process_calls, completions,
                 awaited>>
  /\ UNCHANGED <<vars, enc_vars, error_vars>>

PoolNext ==
  \/ Spawn
  \/ \E c \in 1..Len(process_calls) : ProcessResolves(c)
  \/ \E c \in 1..Len(process_calls), reason \in TaskErrors : ProcessRejects(c, reason)
  \/ AwaitNext
  \/ AwaitThrows
  \/ Return

PoolSpec == PoolInit /\ [][PoolNext]_all_vars

\* Process call c settles, one way or the other.
ProcessSettles(c) ==
  /\ c \in 1..Len(process_calls)
  /\ \/ ProcessResolves(c)
     \/ \E reason \in TaskErrors : ProcessRejects(c, reason)

\* Every process call that is started settles, and execute_async, whose steps
\* are continuations the event loop runs once they are ready, takes each step
\* that stays possible.
PoolFairSpec ==
  /\ PoolSpec
  /\ \A c \in 1..MaxTasks : WF_all_vars(ProcessSettles(c))
  /\ WF_all_vars(Spawn)
  /\ WF_all_vars(AwaitNext)
  /\ WF_all_vars(AwaitThrows)
  /\ WF_all_vars(Return)

(***************************************************************************)
(* stable_json_stringify applied to two values                             *)
(***************************************************************************)
MaxProps == 2       \* most properties of an object that is encoded
MaxItems == 2       \* longest array that is encoded

EncLeaves == {Num(1), Null, Undefined}
EncKeys == {"value", "caf(U+00E9)", "cafe(U+0301)"}

\* The objects with up to MaxProps properties named in EncKeys, in every
\* insertion order, and the arrays of up to MaxItems elements.
EncObjects(values) ==
  UNION {{Obj([j \in 1..n |-> <<ks[j], vs[j]>>]) :
            ks \in {f \in [1..n -> EncKeys] : \A a, b \in 1..n : a # b => f[a] # f[b]},
            vs \in [1..n -> values]} : n \in 0..MaxProps}
EncArrays(values) == UNION {{Arr(items) : items \in [1..n -> values]} : n \in 0..MaxItems}

\* The values encoded: primitives, an Error, flat objects and arrays, and
\* objects nested in an array or under a property.
EncFlat == EncObjects(EncLeaves) \cup EncArrays(EncLeaves)
EncValues ==
  EncLeaves \cup {NewError("boom")} \cup EncFlat
    \cup {Arr(<<o>>) : o \in EncObjects({Num(1)})}
    \cup {Obj(<< <<"value", o>> >>) : o \in EncObjects({Num(1)})}

EncInit ==
  /\ enc_a \in EncValues
  /\ enc_b \in EncValues
  /\ enc_texts = <<>>
  /\ enc_pc = "call"
  /\ ShellIdle /\ PoolIdle /\ ErrorIdle

\* stable_json_stringify(enc_a), then stable_json_stringify(enc_b).
Encode ==
  /\ enc_pc = "call"
  /\ enc_texts' =
       Append(enc_texts, stable_json_stringify(IF enc_texts = <<>> THEN enc_a ELSE enc_b))
  /\ enc_pc' = IF Len(enc_texts) = 1 THEN "done" ELSE "call"
  /\ UNCHANGED <<vars, pool_vars, error_vars, enc_a, enc_b>>

EncNext == Encode
EncSpec == EncInit /\ [][EncNext]_all_vars

(***************************************************************************)
(* ensure_error applied to a thrown value                                  *)
(***************************************************************************)
MaxNumber == 15     \* largest magnitude of a thrown number

\* The values thrown: Errors with and without a message, and values that are
\* not Errors (numbers, strings, booleans, undefined, null, plain objects).
ErrorMessages == {"", "boom", "Unknown error", "0"}
ErrorStacks == {"stack", "", "Error: boom at f"}
ThrownErrors == {[t |-> "Error", message |-> m, stack |-> st] : m \in ErrorMessages, st \in ErrorStacks}
ThrownOthers ==
  {Num(n) : n \in (0 - MaxNumber)..MaxNumber}
    \cup {Str(text) : text \in {"", "bad item", "0", "false", "undefined", "null", "Unknown error"}}
    \cup {Bool(TRUE), Bool(FALSE), Undefined, Null}
    \cup {Obj(<<>>), Obj(<< <<"message", Str("boom")>> >>)}
ErrorInputs == ThrownErrors \cup ThrownOthers

\* The argument once ensure_error has returned: `error.message = default_message`
\* writes to the Error that was passed in.
argument_after_always_default(value) ==
  IF value.t = "Error" THEN [value EXCEPT !.message = default_message] ELSE value

argument_after(value) ==
  IF value.t = "Error" /\ value.message = ""
  THEN [value EXCEPT !.message = default_message]
  ELSE value

ErrorInit ==
  /\ error \in ErrorInputs
  /\ error_before = error
  /\ error_result = <<>>
  /\ error_pc = "call"
  /\ ShellIdle /\ PoolIdle /\ EncIdle

\* ensure_error(error) runs and returns.
EnsureError ==
  /\ error_pc = "call"
  /\ error_result' = <<ensure_error(error)>>
  /\ error' = argument_after(error)
  /\ error_pc' = "done"
  /\ UNCHANGED <<vars, pool_vars, enc_vars, error_before>>

ErrorNext == EnsureError
ErrorSpec == ErrorInit /\ [][ErrorNext]_all_vars

(***************************************************************************)
(* Vocabulary of the properties                                            *)
(***************************************************************************)
\* The invocation is well formed: one argument, JSON, whose inputs is an array.
WellFormed ==
  /\ Len(args) = 1
  /\ args[1].json
  /\ Array_isArray(Get(JSON_parse(args[1]), "inputs"))

\* The inputs of the request, read off the argument itself.
RequestInputs == Get(JSON_parse(args[1]), "inputs").items

CallsOf(fn) == SelectSeq(calls, LAMBDA c : c.fn = fn)
Returned(c) == c.outcome.kind = "return"
Threw(c) == c.outcome.kind = "throw"
MessageOf(c) == ensure_error(c.outcome.value).message

Written == stdout # <<>>
\* The result array of the output, once written.
Output == stdout[1].json.items

\* The entries Err{m} and Ok{v} as the output holds them.
ErrEntry(m) == Obj(<< <<"error", Str(m)>>, <<"is_error", Bool(TRUE)>> >>)
OkEntry(v) ==
  IF v = Undefined THEN Obj(<< <<"is_error", Bool(FALSE)>> >>)
  ELSE Obj(<< <<"is_error", Bool(FALSE)>>, <<"value", v>> >>)

BeforeCall == CallsOf("before")[1]
AfterCall == CallsOf("after")[1]

\* C1: the emitted result array of a well-formed invocation has exactly as many
\* entries as inputs, whatever the phases did.
C1_ResultLength ==
  (WellFormed /\ Written) =>
    \A w \in 1..Len(stdout) :
      /\ stdout[w].json.t = "array"
      /\ Len(stdout[w].json.items) = Len(RequestInputs)

C1_Witness ==
  /\ WellFormed /\ Written
  /\ Len(RequestInputs) >= 2
  /\ \E j \in 1..Len(calls) : calls[j].fn = "process" /\ Threw(calls[j])
  /\ Threw(AfterCall)

\* C2: when before fails with message m and after succeeds, every entry of the
\* output is Err{m}, one per input, and process is never called.
C2_BeforeFailure ==
  /\ (CallsOf("before") # <<>> /\ Threw(BeforeCall)) => CallsOf("process") = <<>>
  /\ (Written /\ Threw(BeforeCall) /\ Returned(AfterCall)) =>
       /\ Len(Output) = Len(RequestInputs)
       /\ \A j \in 1..Len(Output) : Output[j] = ErrEntry(MessageOf(BeforeCall))

C2_Witness ==
  /\ Written /\ Threw(BeforeCall) /\ Returned(AfterCall)
  /\ Len(RequestInputs) >= 2
  /\ MessageOf(BeforeCall) = "boom"

\* C3: when before and after succeed, process is called exactly once per input,
\* in input order, also after a failed item, and entry i of the output is Ok{the
\* value call i returned} or Err{the message of what call i threw}.
C3_ItemIsolation ==
  (Written /\ Returned(BeforeCall) /\ Returned(AfterCall)) =>
    LET runs == CallsOf("process") IN
    /\ Len(runs) = Len(RequestInputs)
    /\ Len(Output) = Len(RequestInputs)
    /\ \A j \in 1..Len(runs) :
         /\ runs[j].args[2] = RequestInputs[j]
         /\ Output[j] = IF Returned(runs[j]) THEN OkEntry(runs[j].outcome.value)
                        ELSE ErrEntry(MessageOf(runs[j]))

C3_Witness ==
  /\ Written /\ Returned(BeforeCall) /\ Returned(AfterCall)
  /\ Len(CallsOf("process")) >= 2
  /\ Returned(CallsOf("process")[1]) /\ CallsOf("process")[1].outcome.value # Undefined
  /\ Threw(CallsOf("process")[2])

\* C4: when after fails with message m2, every entry of the output is Err{m2},
\* one per input, whatever before and the process calls did.
C4_AfterOverride ==
  (Written /\ Threw(AfterCall)) =>
    /\ Len(Output) = Len(RequestInputs)
    /\ \A j \in 1..Len(Output) : Output[j] = ErrEntry(MessageOf(AfterCall))

C4_Witness ==
  /\ Written /\ Threw(AfterCall) /\ MessageOf(AfterCall) = "bad item"
  /\ Returned(BeforeCall)
  /\ Len(CallsOf("process")) >= 2
  /\ \E j \in 1..Len(calls) : calls[j].fn = "process" /\ Returned(calls[j])

\* C5: after is never called twice, and by the time the output is written it has
\* been called exactly once and has settled, whether before succeeded or failed.
C5_AfterOnce ==
  /\ Len(CallsOf("after")) <= 1
  /\ pc = "await_after" => Len(CallsOf("after")) = 1
  /\ Written => (Len(CallsOf("after")) = 1 /\ (Returned(AfterCall) \/ Threw(AfterCall)))

C5_Witness ==
  /\ Written /\ Threw(BeforeCall) /\ Len(CallsOf("after")) = 1
  /\ RequestInputs # <<>>

\* C6: before is called at most once, and exactly once by the time anything else
\* runs; the value it returned is the first argument of every process call and
\* of the after call; after a failed before, after gets undefined.
C6_BeforeOutputShared ==
  /\ Len(CallsOf("before")) <= 1
  /\ pc \in {"await_before", "await_process", "await_after", "await_write", "exited"}
       => Len(CallsOf("before")) = 1
  /\ \A j \in 1..Len(calls) :
       /\ calls[j].fn = "process" =>
            (Returned(BeforeCall) /\ calls[j].args[1] = BeforeCall.outcome.value)
       /\ calls[j].fn = "after" =>
            calls[j].args[1] = IF Returned(BeforeCall) THEN BeforeCall.outcome.value
                               ELSE Undefined

C6_Witness ==
  /\ Written /\ Returned(BeforeCall) /\ BeforeCall.outcome.value = Str("before output")
  /\ Len(CallsOf("process")) >= 2
  /\ AfterCall.args[1] = Str("before output")

\* C7: when inputs is not a sequence, no phase function has been called.
C7_ValidationFirst ==
  (Len(args) = 1 /\ args[1].json /\ ~Array_isArray(Get(JSON_parse(args[1]), "inputs")))
    => calls = <<>>

\* C8: a malformed invocation never gets past the validation of inputs: nothing
\* is written, and where it ends it ends with an uncaught error.
C8_MalformedIsFatal ==
  ~WellFormed =>
    /\ stdout = <<>>
    /\ pc \in {"start", "await_before", "rejected"}
    /\ pc = "rejected" => rejection # <<>>
    /\ (pc = "await_before" /\ Len(args) = 1) => ~Array_isArray(Get(data, "inputs"))

C8_Witness ==
  /\ ~WellFormed /\ pc = "rejected" /\ stdout = <<>>
  /\ Len(args) = 1 /\ calls # <<>>
  /\ rejection = <<NewError("inputs should be an array")>>

\* C9: a well-formed invocation whose phase calls all settle writes the output
\* once and only once, the token and the encoding of the final results, after
\* the after call has settled, and then exits.
C9_SingleWrite ==
  /\ [](Len(stdout) <= 1)
  /\ [](Written =>
          /\ Len(CallsOf("after")) = 1 /\ (Returned(AfterCall) \/ Threw(AfterCall))
          /\ stdout[1] = [token |-> json_output_token,
                          json |-> stable_json_stringify(Arr(results))])
  /\ [](pc = "exited" => Len(stdout) = 1)
  /\ (WellFormed => <>[](pc = "exited" /\ Len(stdout) = 1))

C9_Witness ==
  /\ WellFormed /\ pc = "exited" /\ Len(stdout) = 1
  /\ stdout[1].token = "shell_call_json_output:"
  /\ Len(RequestInputs) >= 1

\* C10: in a well-formed invocation nothing thrown by before, process or after
\* leaves on_shell_call; the invocation goes on to write the output, in which
\* a failure shows as Err entries.
C10_NoEscape ==
  /\ [](WellFormed => (pc # "rejected" /\ rejection = <<>>))
  /\ []((Written /\ RequestInputs # <<>> /\ \E j \in 1..Len(calls) : Threw(calls[j]))
          => \E j \in 1..Len(Output) : Get(Output[j], "is_error") = Bool(TRUE))
  /\ ((WellFormed /\ \E j \in 1..Len(calls) : Threw(calls[j])) ~> Written)

C10_Witness ==
  /\ WellFormed /\ Written
  /\ Threw(BeforeCall) \/ (\E j \in 1..Len(calls) : calls[j].fn = "process" /\ Threw(calls[j]))
  /\ Threw(AfterCall)

\* C11: the calls of a run are made one after the other: before first, then the
\* process calls in input order, then after; a call is made only when every
\* earlier call has returned or thrown, so at most one call is in flight.
C11_Sequential ==
  /\ \A j \in 1..(Len(calls) - 1) : Returned(calls[j]) \/ Threw(calls[j])
  /\ \A j \in 1..Len(calls) :
       /\ calls[j].fn = "before" => j = 1
       /\ calls[j].fn = "process" =>
            (j >= 2 /\ j - 1 <= Len(RequestInputs) /\ calls[j].args[2] = RequestInputs[j - 1])
       /\ calls[j].fn = "after" =>
            (j = Len(calls) /\ (Threw(BeforeCall) \/ j = Len(RequestInputs) + 2))

C11_Witness ==
  /\ pc = "await_process" /\ Len(calls) = 3
  /\ Threw(calls[2]) /\ calls[3].outcome.kind = "pending"
  /\ calls[2].args[2] # calls[3].args[2]

(***************************************************************************)
(* Properties of execute_async                                             *)
(***************************************************************************)
PendingCalls == {c \in 1..Len(process_calls) : process_calls[c].outcome.kind = "pending"}
RejectedCalls == {c \in 1..Len(process_calls) : process_calls[c].outcome.kind = "rejected"}
ResolvedCalls == {c \in 1..Len(process_calls) : process_calls[c].outcome.kind = "resolved"}
Min(a, b) == IF a <= b THEN a ELSE b

\* C12: when execute_async resolves, it resolves with one element per task, the
\* element at each index being what process gave for the task at that index,
\* whatever the order in which the process calls completed.
C12_IndexAligned ==
  pool_pc = "resolved" =>
    /\ returned = <<Arr([k \in 1..Len(tasks) |-> Num(tasks[k].n * tasks[k].n)])>>
    /\ \A c \in 1..Len(process_calls) :
         /\ process_calls[c].outcome.kind = "resolved"
         /\ returned[1].items[process_calls[c].task_i + 1] = process_calls[c].outcome.value

C12_Witness ==
  /\ pool_pc = "resolved" /\ workers_count = 2 /\ Len(tasks) >= 3
  /\ tasks[1] # tasks[2]
  /\ \E a, b \in 1..Len(completions) : a < b /\ completions[a] > completions[b]

\* C13: once a process call has failed, execute_async never resolves; when it
\* settles, it is rejected with the failure of a process call.
C13_NoPartialResult ==
  /\ RejectedCalls # {} => pool_pc # "resolved"
  /\ pool_pc = "rejected" =>
       \E c \in RejectedCalls : returned = <<process_calls[c].outcome.value>>

C13_Witness ==
  /\ pool_pc = "rejected" /\ returned = <<NewError("task failed")>>
  /\ ResolvedCalls # {} /\ DOMAIN pool_results # {}

\* C14: once a process call has failed, no worker claims a further index and no
\* further process call is started.
C14_FailureStopsClaims ==
  [][RejectedCalls # {} => (i' = i /\ Len(process_calls') = Len(process_calls))]_all_vars

\* C18: no two process calls are for the same task index and every index
\* claimed is an index of the list; when execute_async resolves, process has
\* been called exactly once per task; the workers beyond the task count finish
\* without a process call; an empty list gives an empty result and no call.
C18_ExactlyOnce ==
  /\ \A a, b \in 1..Len(process_calls) :
       a # b => process_calls[a].task_i # process_calls[b].task_i
  /\ \A c \in 1..Len(process_calls) :
       process_calls[c].task_i >= 0 /\ process_calls[c].task_i < Len(tasks)
  /\ pool_pc = "resolved" =>
       /\ Len(process_calls) = Len(tasks)
       /\ \A k \in 0..(Len(tasks) - 1) :
            Cardinality({c \in 1..Len(process_calls) : process_calls[c].task_i = k}) = 1
  /\ \A w \in 1..Len(promises) :
       w > Len(tasks) =>
         /\ promises[w].state = "resolved"
         /\ \A c \in 1..Len(process_calls) : process_calls[c].worker # w
  /\ (tasks = <<>> /\ pool_pc \in {"resolved", "rejected"}) =>
       (process_calls = <<>> /\ returned = <<Arr(<<>>)>>)

C18_Witness ==
  /\ pool_pc = "resolved"
  /\ Len(tasks) >= 2 /\ workers_count > Len(tasks)
  /\ Len(process_calls) = Len(tasks)

\* C19: process calls are started in index order: the k-th call started is the
\* call for index k - 1, so index j is started only after every index below j.
C19_StartOrder ==
  \A c \in 1..Len(process_calls) : process_calls[c].task_i = c - 1

C19_Witness ==
  /\ Len(process_calls) >= 3
  /\ process_calls[1].outcome.kind = "pending"
  /\ process_calls[2].outcome.kind = "resolved"
  /\ process_calls[3].task_i = 2

\* C20: the number of process calls started and not yet settled is at most
\* min(workers_count, number of tasks).
C20_BoundedConcurrency ==
  Cardinality(PendingCalls) <= Min(workers_count, Len(tasks))

C20_Witness ==
  /\ workers_count >= 2 /\ workers_count < Len(tasks)
  /\ Cardinality(PendingCalls) = workers_count
  /\ completions # <<>>

(***************************************************************************)
(* Properties of stable_json_stringify                                     *)
(***************************************************************************)
\* a and b are structurally equal up to the insertion order of object keys:
\* arrays agree element by element, objects have the same property names with
\* values that agree, whatever the order the properties were inserted in.
RECURSIVE SameUpToKeyOrder(_, _)
SameUpToKeyOrder(a, b) ==
  CASE a.t = "array" /\ b.t = "array" ->
         /\ Len(a.items) = Len(b.items)
         /\ \A j \in 1..Len(a.items) : SameUpToKeyOrder(a.items[j], b.items[j])
    [] a.t = "object" /\ b.t = "object" ->
         /\ Len(a.props) = Len(b.props)
         /\ \A j \in 1..Len(a.props) :
              \E k \in 1..Len(b.props) :
                /\ a.props[j][1] = b.props[k][1]
                /\ SameUpToKeyOrder(a.props[j][2], b.props[k][2])
    [] OTHER -> a = b

\* a and b are arrays of the same elements in a different order.
DifferInElementOrder(a, b) ==
  /\ a.t = "array" /\ b.t = "array"
  /\ Len(a.items) = Len(b.items)
  /\ ~SameUpToKeyOrder(a, b)
  /\ \E p \in [1..Len(a.items) -> 1..Len(a.items)] :
       /\ \A j, k \in 1..Len(a.items) : j # k => p[j] # p[k]
       /\ \A j \in 1..Len(a.items) : SameUpToKeyOrder(b.items[j], a.items[p[j]])

\* C15: two values that are structurally equal up to the insertion order of
\* object keys are encoded to the same text, and two arrays that differ in
\* element order are encoded to different text.
C15_KeyOrderInsensitive ==
  enc_pc = "done" =>
    /\ SameUpToKeyOrder(enc_a, enc_b) => enc_texts[1] = enc_texts[2]
    /\ DifferInElementOrder(enc_a, enc_b) => enc_texts[1] # enc_texts[2]

(***************************************************************************)
(* Properties of ensure_error                                              *)
(***************************************************************************)
\* C16: for a value that is not an Error, the message of the Error returned is
\* the default text when the value is undefined, null or the empty string, and
\* the string conversion of the value otherwise (0 gives "0", false "false").
C16_MessageOfValue ==
  (error_pc = "done" /\ error_before.t # "Error") =>
    /\ error_result[1].t = "Error"
    /\ error_result[1].message =
         IF error_before \in {Undefined, Null, Str("")}
         THEN "Unknown error"
         ELSE ToStr(error_before)

\* C17, as stated: the value passed in is the same after the call as before.
C17_Pure ==
  error_pc = "done" => error = error_before

\* C17, amended: the value passed in is the same after the call as before,
\* except an Error whose message is empty: its message is "Unknown error"
\* after the call, its stack unchanged, and it is the object returned.
C17_PureButEmptyMessage ==
  error_pc = "done" =>
    IF error_before.t = "Error" /\ error_before.message = ""
    THEN /\ error.t = "Error"
         /\ error.message = "Unknown error"
         /\ error.stack = error_before.stack
         /\ error_result = <<error>>
    ELSE error = error_before

C17_Witness ==
  /\ error_pc = "done"
  /\ error_before = [t |-> "Error", message |-> "", stack |-> "Error: boom at f"]
  /\ error # error_before
  /\ error_result = <<error>>

(***************************************************************************)
(* Termination of execute_async                                            *)
(***************************************************************************)
PoolSettled == pool_pc \in {"resolved", "rejected"}

\* C21: when every process call that is started settles, execute_async
\* settles: it resolves when all process calls succeeded and is rejected when
\* one failed; and when it settles, every worker it has awaited has finished
\* (all of them, with no process call pending, when it resolves).
C21_Termination ==
  /\ <>PoolSettled
  /\ (Cardinality(ResolvedCalls) = Len(tasks)) ~> (pool_pc = "resolved")
  /\ (RejectedCalls # {}) ~> (pool_pc = "rejected")
  /\ [](PoolSettled =>
          /\ awaited >= 1
          /\ \A w \in 1..awaited : promises[w].state # "pending"
          /\ \A c \in 1..Len(process_calls) :
               process_calls[c].worker <= awaited => process_calls[c].outcome.kind # "pending")
  /\ [](pool_pc = "resolved" =>
          /\ awaited = Len(promises)
          /\ PendingCalls = {} /\ RejectedCalls = {}
          /\ Cardinality(ResolvedCalls) = Len(tasks))
  /\ [](pool_pc = "rejected" => RejectedCalls # {})

C21_Witness ==
  /\ pool_pc = "rejected"
  /\ awaited >= 2
  /\ promises[1].state = "resolved"
  /\ Len(completions) = Len(tasks) /\ Len(tasks) = MaxTasks
====
